---- MODULE Spec2Model ----
(***************************************************************************)
(* convex-atom: the bridge from Convex live queries (watchQuery/onUpdate)  *)
(* to effect-atom query atoms (src/app/convex-atom.ts, second iteration,   *)
(* lines 224-581) with the storage/broadcast transports of                 *)
(* src/app/subscribeable-storage.ts.                                       *)
(*                                                                         *)
(* JavaScript values are tagged records.  A string is the sequence of its  *)
(* character codes.  A plain object carries its identity (id) and the hash *)
(* code Hash.random keeps for it (rh): two plain objects are the same      *)
(* instance iff their ids agree.  32-bit integers (hash codes) are pairs   *)
(* <<hi, lo>> of 16-bit halves.                                            *)
(***************************************************************************)
EXTENDS Integers, Sequences, FiniteSets, TLC

VARIABLES
  kin,        \* key deriver: the two parameter objects under comparison
  kout,       \* key deriver: what Equal / Hash answered for them
  env,        \* the scenario: open tabs, isBrowser(), what the components pass
  family,     \* family[c]: the keys of Atom.family's map in tab c, in creation order
  nodes,      \* nodes[c][i]: the registry node and stream of the atom of family[c][i]
  consumers,  \* consumers[c][k]: the atom component k of tab c is mounted on (0: unmounted)
  liveResult, \* liveResult[c][q]: what watch.localQueryResult() answers in tab c
  updates,    \* number of results the live source has pushed so far
  storage,    \* localStorage, shared by the tabs: key -> string
  inbox,      \* inbox[c]: storage and message events queued for tab c
  disposed,   \* disposed[c]: the registry of tab c has been disposed
  last,       \* the handler that ran last and what it was given
  mut,        \* the mutation atoms and the mutation call under way
  opt         \* a call of the optimistic mutation of the design notes

keyVars == <<kin, kout>>

mutVars == <<mut, opt>>

mainVars == <<env, family, nodes, consumers, liveResult, updates, storage, inbox,
              disposed, last>>

vars == <<kin, kout, env, family, nodes, consumers, liveResult, updates,
          storage, inbox, disposed, last, mut, opt>>

----------------------------------------------------------------------------
(* JavaScript values *)

Undefined == [t |-> "undefined"]

Num(n) == [t |-> "num", n |-> n]

Fld(k, v) == [k |-> k, v |-> v]

Obj(id, fields) == [t |-> "obj", id |-> id, fields |-> fields, rh |-> <<0, id>>]

KeyA == <<97>>

KeyB == <<98>>

KeyX == <<120>>

NameList == <<108, 78>>

NameAdd == <<97, 78>>

FunctionNames == {NameList, NameAdd}

Clients == {"client1", "client2"}

\* the hash codes Hash.random may draw for a plain object
RandomHashes == {<<0, 7>>, <<0, 11>>}

\* the plain objects a caller may nest inside its arguments: two instances with
\* the same content, each with the hash code drawn for it
NestedObjects ==
  {[Obj(id, <<Fld(KeyX, Num(1))>>) EXCEPT !.rh = h] : id \in {5, 6}, h \in RandomHashes}

\* the argument values a caller may pass to useQuery
RawArgs ==
  { Undefined,
    Obj(1, <<>>),
    Obj(2, <<Fld(KeyA, Num(1)), Fld(KeyB, Num(2))>>),
    Obj(3, <<Fld(KeyB, Num(2)), Fld(KeyA, Num(1))>>),
    Obj(4, <<Fld(KeyA, Num(1)), Fld(KeyB, Num(1))>>) }
  \cup { Obj(o.id + 2, <<Fld(KeyA, o)>>) : o \in NestedObjects }

----------------------------------------------------------------------------
(* 32-bit integer arithmetic of the hash functions *)

RECURSIVE XorBits(_, _, _)
XorBits(a, b, n) ==
  IF n = 0 THEN 0
  ELSE (((a % 2) + (b % 2)) % 2) + (2 * XorBits(a \div 2, b \div 2, n - 1))

\* the exclusive or of two bytes, tabulated
XorByte == [a \in 0..255 |-> [b \in 0..255 |-> XorBits(a, b, 8)]]

Xor16(a, b) ==
  (XorByte[a \div 256][b \div 256] * 256) + XorByte[a % 256][b % 256]

Xor32(x, y) == <<Xor16(x[1], y[1]), Xor16(x[2], y[2])>>

Mul32(w, k) ==
  LET lo == w[2] * k
      hi == (w[1] * k) + (lo \div 65536)
  IN  <<hi % 65536, lo % 65536>>

Int32(n) == <<0, n>>

\* (n & 0xbfffffff) | ((n >>> 1) & 0x40000000)
HashOptimize(w) ==
  LET b31 == w[1] \div 32768
      b30 == (w[1] \div 16384) % 2
  IN  <<(w[1] - (b30 * 16384)) + (b31 * 16384), w[2]>>

\* combine(b)(self) = (self * 53) ^ b
HashCombine(b, self) == Xor32(Mul32(self, 53), b)

RECURSIVE HashStringLoop(_, _, _)
HashStringLoop(str, i, h) ==
  IF i = 0 THEN h
  ELSE HashStringLoop(str, i - 1, Xor32(Mul32(h, 33), Int32(str[i])))

HashString(str) == HashOptimize(HashStringLoop(str, Len(str), Int32(5381)))

HashNumber(w) == HashOptimize(w)

\* Hash.hash of a field value: a number, or a plain object (Hash.random)
HashValue(v) ==
  IF v.t = "num" THEN HashNumber(Int32(v.n)) ELSE v.rh

RECURSIVE HashStructureLoop(_, _, _)
HashStructureLoop(fields, i, h) ==
  IF i > Len(fields) THEN h
  ELSE HashStructureLoop(fields, i + 1,
         Xor32(h, HashCombine(HashValue(fields[i].v), HashString(fields[i].k))))

\* Hash.structure: h ^= combine(hash(o[key]))(string(key)) over Object.keys(o)
HashStructure(o) == HashOptimize(HashStructureLoop(o.fields, 1, Int32(12289)))

RECURSIVE HashArrayLoop(_, _, _)
HashArrayLoop(hs, i, h) ==
  IF i > Len(hs) THEN h
  ELSE HashArrayLoop(hs, i + 1, HashCombine(hs[i], h))

\* Hash.array over the hash codes of the elements
HashArray(hs) == HashOptimize(HashArrayLoop(hs, 1, Int32(6151)))

----------------------------------------------------------------------------
(* Equal.equals and Data.struct *)

HasKey(o, k) == \E i \in 1..Len(o.fields) : o.fields[i].k = k

Get(o, k) == o.fields[CHOOSE i \in 1..Len(o.fields) : o.fields[i].k = k].v

\* Equal.equals on field values: primitives by value, plain objects by reference
EqualEqualsValue(a, b) ==
  /\ a.t = b.t
  /\ IF a.t = "num" THEN a.n = b.n ELSE a.id = b.id

\* Data.struct(args ?? {}): a shallow copy with structural Equal and Hash; the
\* hash is kept with the object (Hash.cached)
DataStruct(args) ==
  LET fields == IF args.t = "undefined" THEN <<>> ELSE args.fields
  IN  [t |-> "struct", fields |-> fields,
       hash |-> HashStructure([fields |-> fields])]

\* StructuralPrototype[Equal.symbol]
StructEquals(self, that) ==
  /\ Len(self.fields) = Len(that.fields)
  /\ \A i \in 1..Len(self.fields) :
       /\ HasKey(that, self.fields[i].k)
       /\ EqualEqualsValue(self.fields[i].v, Get(that, self.fields[i].k))

\* Equal.equals on two Data.struct values: the hashes are compared first
EqualEqualsStruct(a, b) ==
  /\ a.hash = b.hash
  /\ StructEquals(a, b)

----------------------------------------------------------------------------
(* QueryParams and MutationParams *)

isQueryParams(u) == u.tag = "QueryParams"

isMutationParams(u) == u.tag = "MutationParams"

ClientNo(client) == IF client = "client1" THEN 1 ELSE 2

\* a hash that also takes the client in
QueryParamsHashClient(self) ==
  HashArray(<<HashString(self.query), HashNumber(self.args.hash),
              HashNumber(Int32(ClientNo(self.client)))>>)

\* QueryParamsProto[Hash.symbol]
QueryParamsHash(self) ==
  HashArray(<<HashString(self.query), HashNumber(self.args.hash)>>)

\* MutationParamsProto[Hash.symbol]
MutationParamsHash(self) == HashString(self.mutation)

\* the object with the hash code Hash.cached keeps on it
WithHash(self) ==
  [tag |-> self.tag, client |-> self.client, query |-> self.query,
   args |-> self.args, hash |-> QueryParamsHash(self)]

makeQueryParams(client, query, args) ==
  WithHash([tag |-> "QueryParams", client |-> client, query |-> query,
            args |-> DataStruct(args)])

makeMutationParams(client, mutation) ==
  [tag |-> "MutationParams", client |-> client, mutation |-> mutation,
   hash |-> MutationParamsHash([mutation |-> mutation])]

QueryParamsEquals(self, that) ==
  /\ isQueryParams(that)
  /\ self.query = that.query
  /\ EqualEqualsStruct(self.args, that.args)

MutationParamsEqualsClient(self, that) ==
  /\ isMutationParams(that)
  /\ self.mutation = that.mutation
  /\ self.client = that.client

MutationParamsEquals(self, that) ==
  /\ isMutationParams(that)
  /\ self.mutation = that.mutation

ParamsEquals(p, q) ==
  IF isQueryParams(p) THEN QueryParamsEquals(p, q) ELSE MutationParamsEquals(p, q)


----------------------------------------------------------------------------
(* Query results, JSON and the storage key *)

Throws == [t |-> "throws"]

Null == [t |-> "null"]

\* the result object of version id pushed by the live source
ResultObj(id) == Obj(id, <<Fld(KeyX, Num(1))>>)

RECURSIVE JsonStringify(_)
RECURSIVE JsonFields(_, _)
JsonFields(fields, i) ==
  IF i > Len(fields) THEN <<>>
  ELSE (IF i > 1 THEN <<44>> ELSE <<>>)
       \o <<34>> \o fields[i].k \o <<34, 58>> \o JsonStringify(fields[i].v)
       \o JsonFields(fields, i + 1)

\* JSON.stringify: own fields in insertion order, identity not written
JsonStringify(v) ==
  IF v.t = "num" THEN <<48 + v.n>>
  ELSE <<123>> \o JsonFields(v.fields, 1) \o <<125>>

\* what JSON.parse can return here; a parsed object is a new instance (id 0)
ParsedValues == {Num(1), Num(2), ResultObj(0)}

JsonParses(s) == \E v \in ParsedValues : JsonStringify(v) = s

JsonParse(s) == CHOOSE v \in ParsedValues : JsonStringify(v) = s

\* a string that is not JSON
Garbage == <<63>>

\* what getItem answers for a key that has no item (null), kept apart from
\* every string
NoItem == <<0>>

\* getFunctionName(params.query) + JSON.stringify(params.args)
KvKey(params) == params.query \o JsonStringify(params.args)

RECURSIVE DeepContent(_)
\* a value up to field order and object identity
DeepContent(v) ==
  IF v.t = "num" THEN <<"num", v.n>>
  ELSE IF v.t = "undefined" THEN <<"obj", {}>>
  ELSE <<"obj", {<<v.fields[i].k, DeepContent(v.fields[i].v)>> : i \in 1..Len(v.fields)}>>

\* the live source's own identity of a query: function name and argument value
LiveKey(params) == <<params.query, DeepContent(params.args)>>

----------------------------------------------------------------------------
(* Result values of an atom, and Equal.equals on them *)

ResultInitial == [tag |-> "Initial"]

ResultSuccess(v) == [tag |-> "Success", value |-> v]

ResultFailure(prev) == [tag |-> "Failure", previous |-> prev]

\* Equal.equals on two emitted values: numbers by value, objects by reference
\* (a parsed object, id 0, is an instance of its own)
ValueEquals(a, b) ==
  /\ a.t = b.t
  /\ IF a.t = "num" THEN a.n = b.n ELSE a.id = b.id /\ a.id # 0

ResultEquals(a, b) ==
  /\ a.tag = b.tag
  /\ a.tag = "Success" => ValueEquals(a.value, b.value)
  /\ a.tag = "Failure" => FALSE

\* structural equality of two values, identity and field order ignored
SameContent(a, b) == DeepContent(a) = DeepContent(b)

----------------------------------------------------------------------------
(* The stream's queue: Stream.asyncPush with bufferSize 2, strategy sliding *)

bufferSize == 2

ExitFail == [t |-> "exit"]

\* a stack: the newest item is put first
StackOffer(q, item) ==
  IF Len(q) < bufferSize THEN <<item>> \o q ELSE <<item>> \o SubSeq(q, 1, bufferSize - 1)

\* Queue.dropping: a full queue refuses the new item
DroppingOffer(q, item) ==
  IF Len(q) < bufferSize THEN Append(q, item) ELSE q

\* Queue.sliding: a full queue drops its oldest item to take the new one
SlidingOffer(q, item) ==
  IF Len(q) < bufferSize THEN Append(q, item) ELSE Append(Tail(q), item)

----------------------------------------------------------------------------
(* Bounds, and what the components pass to useQuery *)

\* atoms per tab
MaxAtoms == 3

\* components per tab
MaxConsumers == 2

\* results the live source pushes in a run
MaxLiveUpdates == 2

\* events queued for a tab and not yet dispatched
MaxInbox == 2

Caller(args) == [kind |-> "query", client |-> "client1", name |-> NameList, args |-> args]

ArgsAB == Obj(2, <<Fld(KeyA, Num(1)), Fld(KeyB, Num(2))>>)

ArgsBA == Obj(3, <<Fld(KeyB, Num(2)), Fld(KeyA, Num(1))>>)

ArgsOther == Obj(4, <<Fld(KeyA, Num(1)), Fld(KeyB, Num(1))>>)

\* the scenarios: one tab outside a browser whose components pass argument
\* objects that are equal up to field order, or that differ; one tab of a
\* browser with one query; two tabs of a browser with the same query, one
\* component each, where only the second tab's live source has results
Scenarios ==
  { [tabs |-> {1}, browser |-> FALSE, components |-> <<MaxConsumers, 0>>,
     live |-> {1}, callers |-> {Caller(ArgsAB), Caller(ArgsBA)}, quota |-> FALSE],
    [tabs |-> {1}, browser |-> FALSE, components |-> <<MaxConsumers, 0>>,
     live |-> {1}, callers |-> {Caller(ArgsAB), Caller(ArgsOther)}, quota |-> FALSE],
    [tabs |-> {1}, browser |-> TRUE, components |-> <<MaxConsumers, 0>>,
     live |-> {1}, callers |-> {Caller(Undefined)}, quota |-> FALSE],
    [tabs |-> {1}, browser |-> TRUE, components |-> <<1, 0>>,
     live |-> {1}, callers |-> {Caller(Undefined)}, quota |-> TRUE],
    [tabs |-> {1, 2}, browser |-> TRUE, components |-> <<1, 1>>,
     live |-> {2}, callers |-> {Caller(Undefined)}, quota |-> FALSE] }

AllCallers == UNION {e.callers : e \in Scenarios}

\* the params useQuery makes of what a component passes (makeQueryParams is
\* called anew at every render and answers an equal value every time)
UseQueryParams ==
  [raw \in AllCallers |-> makeQueryParams(raw.client, raw.name, raw.args)]

----------------------------------------------------------------------------
(* Handlers as functions of the world w = [nodes, storage, inbox] *)

Browser(c) == env.browser

\* localStorage.setItem throws (the quota is used up): kv.value.set fails
SetFails(c) == env.browser /\ env.quota

\* the function watch.onUpdate returned throws when it is called
UnsubscribeThrows(c) == "unsubThrows" \in DOMAIN env /\ env.unsubThrows

OtherTabs(c) == env.tabs \ {c}

\* the atoms of tab c whose BroadcastChannel exists, the one of node i left out
Channels(w, c, i) ==
  {j \in 1..Len(w.nodes[c]) : j # i /\ w.nodes[c][j].channel}

\* emit.single(value).  A handler emits at most one value and the emitter hands
\* what it has to the queue before the next handler runs, so that a queue item
\* holds one value.  first and lastEmit remember the first and the latest value
\* given to emit.single; dropped remembers that an offer found the queue full.
\* order runs beside the queue: order[j] tells how many emits after the item
\* the atom took last the j-th item of the queue was emitted.
NextOrder(o) ==
  IF o = <<>> THEN 1
  ELSE 1 + CHOOSE x \in {o[j] : j \in 1..Len(o)} : \A j \in 1..Len(o) : o[j] <= x

\* an emit that does not look whether the stream has ended
EmitSingleUnguarded(w, c, i, v) ==
  LET n == w.nodes[c][i]
  IN  [w EXCEPT !.nodes[c][i].queue = SlidingOffer(n.queue, v),
                !.nodes[c][i].order = SlidingOffer(n.order, NextOrder(n.order)),
                !.nodes[c][i].dropped = n.dropped \/ Len(n.queue) = bufferSize,
                !.nodes[c][i].first = IF n.first = Null THEN v ELSE n.first,
                !.nodes[c][i].lastEmit = v]

EmitSingle(w, c, i, v) ==
  LET n == w.nodes[c][i]
  IN  IF n.finished \/ n.status # "active" THEN w
      ELSE [w EXCEPT !.nodes[c][i].queue = SlidingOffer(n.queue, v),
                     !.nodes[c][i].order = SlidingOffer(n.order, NextOrder(n.order)),
                     !.nodes[c][i].dropped = n.dropped \/ Len(n.queue) = bufferSize,
                     !.nodes[c][i].first = IF n.first = Null THEN v ELSE n.first,
                     !.nodes[c][i].lastEmit = v]

\* emit.fail(error): the stream is done; later emits are ignored.  failWhy
\* remembers the cause of the error: "read" (localQueryResult threw), "parse"
\* (JSON.parse threw), "transport" (kv.value.set failed).
EmitFail(w, c, i, why) ==
  LET n == w.nodes[c][i]
  IN  IF n.finished \/ n.status # "active" THEN w
      ELSE [w EXCEPT !.nodes[c][i].queue = SlidingOffer(n.queue, ExitFail),
                     !.nodes[c][i].order = SlidingOffer(n.order, NextOrder(n.order)),
                     !.nodes[c][i].dropped = n.dropped \/ Len(n.queue) = bufferSize,
                     !.nodes[c][i].finished = TRUE,
                     !.nodes[c][i].failWhy = why]

\* kv.value.set(key, value): localStorage.setItem; the other tabs get a storage
\* event when the stored value changes
KvSet(w, c, key, s) ==
  LET old == w.storage[key]
  IN  [w EXCEPT !.storage[key] = s,
                !.inbox = [d \in DOMAIN w.inbox |->
                   IF d \in OtherTabs(c) /\ old # s
                   THEN Append(w.inbox[d], [kind |-> "storage", key |-> key,
                                            old |-> old, new |-> s])
                   ELSE w.inbox[d]]]

\* broadcast.value.post(key, value): channel.postMessage reaches every other
\* BroadcastChannel object of the origin that exists now.  posts counts the
\* messages the atom has posted and lastPost is the latest of them.
BroadcastPost(w, c, i, key, s) ==
  [w EXCEPT !.inbox = [d \in DOMAIN w.inbox |->
     LET to == IF d = c THEN Channels(w, c, i) ELSE Channels(w, d, 0)
     IN  IF d \in env.tabs /\ to # {}
         THEN Append(w.inbox[d], [kind |-> "broadcast", key |-> key,
                                  value |-> s, to |-> to])
         ELSE w.inbox[d]],
            !.nodes[c][i].posts = @ + 1,
            !.nodes[c][i].lastPost = [key |-> key, value |-> s]]

\* listener(value): emit.single(JSON.parse(value)); a parse error is sent
\* to the stream with emit.fail
ListenerRelays(w, c, i, s) ==
  LET w1 == IF JsonParses(s) THEN EmitSingle(w, c, i, JsonParse(s))
            ELSE EmitFail(w, c, i, "parse")
  IN  BroadcastPost(w1, c, i, w.nodes[c][i].kvKey, s)

Listener(w, c, i, s) ==
  IF JsonParses(s) THEN EmitSingle(w, c, i, JsonParse(s)) ELSE EmitFail(w, c, i, "parse")

\* a callback without the try/catch: a throwing read leaves the stream alone
OnUpdateNoCatch(w, c, i) ==
  LET n == w.nodes[c][i]
      result == liveResult'[c][n.liveKey]
      value == JsonStringify(result)
      w1 == IF Browser(c) THEN KvSet(w, c, n.kvKey, value) ELSE w
  IN  IF result = Throws \/ result = Undefined \/ SetFails(c) THEN w
      ELSE IF Browser(c) THEN BroadcastPost(w1, c, i, n.kvKey, value) ELSE w1

\* the callback given to watch.onUpdate
OnUpdateUndefinedEmitted(w, c, i) ==
  LET n == w.nodes[c][i]
      result == liveResult'[c][n.liveKey]
      value == JsonStringify(result)
      w1 == IF Browser(c) THEN KvSet(w, c, n.kvKey, value) ELSE w
  IN  IF result = Throws THEN EmitFail(w, c, i, "read")
      ELSE IF result = Undefined THEN EmitSingle(w, c, i, Undefined)
      ELSE IF SetFails(c) THEN EmitFail(w, c, i, "transport")
      ELSE IF Browser(c) THEN BroadcastPost(w1, c, i, n.kvKey, value) ELSE w1

OnUpdate(w, c, i) ==
  LET n == w.nodes[c][i]
      result == liveResult'[c][n.liveKey]
      value == JsonStringify(result)
      w1 == IF Browser(c) THEN KvSet(w, c, n.kvKey, value) ELSE w
  IN  IF result = Throws THEN EmitFail(w, c, i, "read")
      ELSE IF result = Undefined THEN w
      \* Effect.runSync throws what kv.value.set fails with, inside the try
      ELSE IF SetFails(c) THEN EmitFail(w, c, i, "transport")
      ELSE IF Browser(c) THEN BroadcastPost(w1, c, i, n.kvKey, value) ELSE w1

\* the cleanup function: unsubscribe(); unsubscribeStorage(); unsubscribeBroadcast().
\* relWhy, relRefcount and relKeepAlive remember what ended the stream's scope
\* and the node's refcount and keepAlive at that moment.  unsubStorageCalls and
\* unsubBroadcastCalls count the calls of removeEventListener (the two
\* functions do nothing where no listener was subscribed).
CleanupLiveOnly(w, c, i, why) ==
  LET n == w.nodes[c][i]
  IN  [w EXCEPT !.nodes[c][i].regLive = FALSE,
                !.nodes[c][i].unsubCalls = n.unsubCalls + 1,
                !.nodes[c][i].relWhy = why,
                !.nodes[c][i].relRefcount = n.refcount,
                !.nodes[c][i].relKeepAlive = n.keepAlive]

Cleanup(w, c, i, why) ==
  LET n == w.nodes[c][i]
  IN  IF UnsubscribeThrows(c)
      \* unsubscribe() throws out of the cleanup function: the two calls after
      \* it are not made
      THEN [w EXCEPT !.nodes[c][i].unsubCalls = n.unsubCalls + 1,
                     !.nodes[c][i].relWhy = why,
                     !.nodes[c][i].relRefcount = n.refcount,
                     !.nodes[c][i].relKeepAlive = n.keepAlive]
      ELSE
      [w EXCEPT !.nodes[c][i].regLive = FALSE,
                !.nodes[c][i].regStorage = FALSE,
                !.nodes[c][i].regBroadcast = FALSE,
                !.nodes[c][i].unsubCalls = n.unsubCalls + 1,
                !.nodes[c][i].unsubStorageCalls =
                   n.unsubStorageCalls + IF Browser(c) THEN 1 ELSE 0,
                !.nodes[c][i].unsubBroadcastCalls =
                   n.unsubBroadcastCalls + IF Browser(c) THEN 1 ELSE 0,
                !.nodes[c][i].relWhy = why,
                !.nodes[c][i].relRefcount = n.refcount,
                !.nodes[c][i].relKeepAlive = n.keepAlive]

----------------------------------------------------------------------------
(* Atom.family, the registry node of an atom, and the stream's activation *)

KeepAliveOff(params) == FALSE

\* .pipe(Atom.keepAlive): every query atom is kept alive
KeepAlive(params) == TRUE

\* an atom the family has just made: no registry node yet
NewNode(params) ==
  [status |-> "none", refcount |-> 0, keepAlive |-> KeepAlive(params),
   kvKey |-> KvKey(params), liveKey |-> LiveKey(params),
   queue |-> <<>>, finished |-> FALSE, first |-> Null, lastEmit |-> Null,
   dropped |-> FALSE, order |-> <<>>, failWhy |-> "",
   fromCache |-> FALSE, fromLive |-> FALSE, value |-> ResultInitial,
   regLive |-> FALSE, regStorage |-> FALSE, regBroadcast |-> FALSE,
   channel |-> FALSE, watchCalls |-> 0, onUpdateCalls |-> 0, unsubCalls |-> 0,
   unsubStorageCalls |-> 0, unsubBroadcastCalls |-> 0,
   posts |-> 0, lastPost |-> NoItem,
   relWhy |-> "", relRefcount |-> 0, relKeepAlive |-> FALSE]

FamilyLookupNever(fam, params) == 0

\* MutableHashMap.get: the entry with the same hash whose key Equal.equals params
FamilyLookup(fam, params) ==
  LET hits == {i \in 1..Len(fam) :
                 /\ fam[i].hash = params.hash
                 /\ QueryParamsEquals(params, fam[i])}
  IN  IF hits = {} THEN 0 ELSE CHOOSE i \in hits : \A j \in hits : i <= j

\* a load that emits undefined where there is nothing to emit
OnNoneEmits(w, c, i) == EmitSingle(w, c, i, Undefined)

\* onNone: () => { }: no live result and nothing cached, nothing is emitted
OnNone(w, c, i) == w

\* watch.onUpdate(callback): the callback is registered with the live source
OnUpdateRegistered(w, c, i) ==
  [w EXCEPT !.nodes[c][i].regLive = TRUE,
            !.nodes[c][i].onUpdateCalls = @ + 1]

\* the acquire effect of the stream of node i (Effect.gen of convexQueryFamily)
Activate(w, c, i) ==
  LET n == w.nodes[c][i]
      b == Browser(c)
      w1 == [w EXCEPT !.nodes[c][i] =
               [n EXCEPT !.status = "active", !.watchCalls = @ + 1,
                         !.regStorage = b, !.regBroadcast = b, !.channel = b,
                         !.queue = <<>>, !.finished = FALSE, !.first = Null,
                         !.lastEmit = Null, !.fromCache = FALSE,
                         !.fromLive = FALSE,
                         !.dropped = FALSE, !.order = <<>>, !.failWhy = "",
                         !.value = ResultInitial]]
      initial == liveResult[c][n.liveKey]
      cached == w.storage[n.kvKey]
  IN  IF initial = Throws
        THEN OnUpdateRegistered(EmitFail(w1, c, i, "read"), c, i)
      ELSE IF initial # Undefined /\ SetFails(c)
        \* yield* kv.value.set fails: the acquire effect fails ("Stream failed"),
        \* no cleanup function is returned and onUpdate is never registered
        THEN [EmitSingle(w1, c, i, initial) EXCEPT
                !.nodes[c][i].status = "closed",
                !.nodes[c][i].queue = <<>>,
                !.nodes[c][i].order = <<>>,
                !.nodes[c][i].failWhy = "transport",
                !.nodes[c][i].value = ResultFailure(Null)]
      ELSE IF initial # Undefined
        THEN LET e == [EmitSingle(w1, c, i, initial) EXCEPT
                         !.nodes[c][i].fromLive = TRUE]
                 k == IF b THEN KvSet(e, c, n.kvKey, JsonStringify(initial)) ELSE e
                 p == IF b THEN BroadcastPost(k, c, i, n.kvKey, JsonStringify(initial))
                      ELSE k
             IN  OnUpdateRegistered(p, c, i)
      ELSE IF b /\ cached # NoItem /\ ~JsonParses(cached)
        \* JSON.parse throws inside Effect.map: the acquire effect dies, no
        \* cleanup function is returned and onUpdate is never registered
        THEN [w1 EXCEPT !.nodes[c][i].status = "closed",
                        !.nodes[c][i].failWhy = "parse",
                        !.nodes[c][i].value = ResultFailure(Null)]
      ELSE IF b /\ cached # NoItem
        THEN OnUpdateRegistered(
               [EmitSingle(w1, c, i, JsonParse(cached)) EXCEPT
                  !.nodes[c][i].fromCache = TRUE], c, i)
      ELSE OnUpdateRegistered(OnNone(w1, c, i), c, i)

\* a mount that is not counted
MountUncounted(w, c, i) == w

\* useAtomValue(atom): the component becomes a listener of the atom's node
Mount(w, c, i) == [w EXCEPT !.nodes[c][i].refcount = @ + 1]

InboxRoom(w) == \A d \in DOMAIN w.inbox : Len(w.inbox[d]) <= MaxInbox

World == [nodes |-> nodes, storage |-> storage, inbox |-> inbox]

Commit(w) ==
  /\ InboxRoom(w)
  /\ nodes' = w.nodes
  /\ storage' = w.storage
  /\ inbox' = w.inbox

\* useQuery in component k of tab c: makeQueryParams, convexQueryFamily(params),
\* useAtomValue(atom)
Acquire(c, k, raw) ==
  /\ c \in env.tabs
  /\ ~disposed[c]
  /\ k <= env.components[c]
  /\ consumers[c][k] = 0
  /\ \A k2 \in 1..(k - 1) : consumers[c][k2] # 0
  /\ raw \in env.callers
  /\ LET params == UseQueryParams[raw]
         found == FamilyLookup(family[c], params)
         i == IF found # 0 THEN found ELSE Len(family[c]) + 1
         w0 == IF found # 0 THEN World
               ELSE [World EXCEPT !.nodes[c] = Append(@, NewNode(params))]
         w1 == IF w0.nodes[c][i].status = "none" THEN Activate(w0, c, i) ELSE w0
         w2 == Mount(w1, c, i)
     IN  /\ i <= MaxAtoms
         /\ family' = IF found # 0 THEN family
                      ELSE [family EXCEPT ![c] = Append(@, params)]
         /\ Commit(w2)
         /\ consumers' = [consumers EXCEPT ![c][k] = i]
         /\ last' = [op |-> "Acquire", c |-> c, i |-> i, made |-> found = 0,
                     activated |-> w0.nodes[c][i].status = "none",
                     wasLive |-> \E j \in 1..Len(family[c]) :
                                   /\ ParamsEquals(params, family[c][j])
                                   /\ nodes[c][j].regLive]
  /\ UNCHANGED <<env, liveResult, updates, disposed, keyVars, mutVars>>

\* a removal that runs the cleanup whether or not the stream's scope is open
RemoveNodeAlways(w, c, i, why) ==
  [Cleanup(w, c, i, why) EXCEPT !.nodes[c][i].status = "none",
                                !.nodes[c][i].queue = <<>>,
                                !.nodes[c][i].order = <<>>]

\* the node of an atom is removed (with its last listener if the atom is not
\* kept alive, or with its registry): the stream's scope closes and runs the
\* cleanup if it is still open
RemoveNode(w, c, i, why) ==
  LET w1 == IF w.nodes[c][i].status = "active" THEN Cleanup(w, c, i, why) ELSE w
  IN  [w1 EXCEPT !.nodes[c][i].status = "none", !.nodes[c][i].queue = <<>>,
                 !.nodes[c][i].order = <<>>]

\* component k of tab c unmounts: its listener leaves the node
Release(c, k) ==
  /\ c \in env.tabs
  /\ consumers[c][k] # 0
  /\ LET i == consumers[c][k]
         w1 == [World EXCEPT !.nodes[c][i].refcount = @ - 1]
         w2 == IF w1.nodes[c][i].refcount = 0 /\ ~w1.nodes[c][i].keepAlive
               THEN RemoveNode(w1, c, i, "release") ELSE w1
     IN  /\ Commit(w2)
         /\ last' = [op |-> "Release", c |-> c, i |-> i]
  /\ consumers' = [consumers EXCEPT ![c][k] = 0]
  /\ UNCHANGED <<env, family, liveResult, updates, disposed, keyVars, mutVars>>

RECURSIVE NotifyLoop(_, _, _, _)
\* the live source calls every callback registered for query q in tab c
NotifyLoop(w, c, q, i) ==
  IF i > Len(w.nodes[c]) THEN w
  ELSE NotifyLoop(IF w.nodes[c][i].regLive /\ w.nodes[c][i].liveKey = q
                  THEN OnUpdate(w, c, i) ELSE w, c, q, i + 1)

\* the queries the live source is asked about
LiveKeys == {LiveKey(UseQueryParams[raw]) : raw \in AllCallers}

\* what reading the live source may answer: no result yet, a throw, a number,
\* or a result object, a new instance for every result pushed
LiveResults == {Undefined, Throws, Num(1)} \cup {ResultObj(u) : u \in 1..MaxLiveUpdates}

\* what the live source may answer after its next push
NextResults == {Undefined, Throws, Num(1), ResultObj(updates + 1)}

\* the live source of tab c has a new result r for query q and notifies
\* how many notifications the live source makes (a scenario may say so)
Notifications ==
  IF "notifications" \in DOMAIN env THEN env.notifications ELSE MaxLiveUpdates

LiveUpdate(c, q, r) ==
  /\ c \in env.live
  /\ q \in DOMAIN liveResult[c]
  /\ updates < Notifications
  /\ r \in NextResults
  /\ liveResult' = [liveResult EXCEPT ![c][q] = r]
  /\ updates' = updates + 1
  /\ Commit(NotifyLoop(World, c, q, 1))
  /\ last' = [op |-> "LiveUpdate", c |-> c, q |-> q, r |-> r]
  /\ UNCHANGED <<env, family, consumers, disposed, keyVars, mutVars>>

\* listeners that hear nothing
ReceivesNever(n, i, e) == FALSE

ReceivesAnyKey(n, i, e) ==
  IF e.kind = "storage"
  THEN n.regStorage /\ e.new # NoItem /\ e.new # e.old
  ELSE n.regBroadcast /\ i \in e.to

\* onStorage / onBroadcast of node i, given event e
Receives(n, i, e) ==
  IF e.kind = "storage"
  THEN n.regStorage /\ e.key = n.kvKey /\ e.new # NoItem /\ e.new # e.old
  ELSE n.regBroadcast /\ i \in e.to /\ e.key = n.kvKey

EventValue(e) == IF e.kind = "storage" THEN e.new ELSE e.value

RECURSIVE DeliverLoop(_, _, _, _)
DeliverLoop(w, c, e, i) ==
  IF i > Len(w.nodes[c]) THEN w
  ELSE DeliverLoop(IF Receives(w.nodes[c][i], i, e)
                   THEN Listener(w, c, i, EventValue(e)) ELSE w, c, e, i + 1)

RemoveAt(s, j) == [x \in 1..(Len(s) - 1) |-> IF x < j THEN s[x] ELSE s[x + 1]]

\* tab c dispatches the queued event j to its listeners.  Storage events are
\* dispatched in the order they were queued, and so are messages; the two are
\* tasks of different sources and may overtake each other.
Deliver(c, j) ==
  /\ c \in env.tabs
  /\ j \in 1..Len(inbox[c])
  /\ \A j2 \in 1..(j - 1) : inbox[c][j2].kind # inbox[c][j].kind
  /\ LET e == inbox[c][j]
         w0 == [World EXCEPT !.inbox[c] = RemoveAt(@, j)]
     IN  /\ Commit(DeliverLoop(w0, c, e, 1))
         /\ last' = [op |-> "Deliver", c |-> c, e |-> e]
  /\ UNCHANGED <<env, family, consumers, liveResult, updates, disposed, keyVars, mutVars>>

\* the atom's fiber takes the next item of the stream's queue: a value becomes
\* the atom's Result (listeners are told unless Equal.equals says it is the
\* same); a failure ends the stream, whose scope closes and runs the cleanup
Consume(c, i) ==
  /\ c \in env.tabs
  /\ i \in 1..Len(nodes[c])
  /\ nodes[c][i].status = "active"
  /\ nodes[c][i].queue # <<>>
  /\ LET n == nodes[c][i]
         item == Head(n.queue)
         prev == IF n.value.tag = "Success" THEN n.value.value ELSE Null
         w1 == IF item = ExitFail
               THEN [Cleanup(World, c, i, "failure") EXCEPT
                       !.nodes[c][i].status = "closed",
                       !.nodes[c][i].queue = <<>>,
                       !.nodes[c][i].order = <<>>,
                       !.nodes[c][i].value = ResultFailure(prev)]
               ELSE [World EXCEPT
                       !.nodes[c][i].queue = Tail(n.queue),
                       !.nodes[c][i].order =
                          [j \in 1..(Len(n.order) - 1) |-> n.order[j + 1] - n.order[1]],
                       !.nodes[c][i].value =
                          IF ResultEquals(n.value, ResultSuccess(item))
                          THEN n.value ELSE ResultSuccess(item)]
     IN  /\ Commit(w1)
         /\ last' = [op |-> "Consume", c |-> c, i |-> i, item |-> item,
                     changed |-> item = ExitFail
                                 \/ ~ResultEquals(n.value, ResultSuccess(item)),
                     same |-> /\ item # ExitFail
                              /\ prev # Null
                              /\ SameContent(prev, item)]
  /\ UNCHANGED <<env, family, consumers, liveResult, updates, disposed, keyVars, mutVars>>

RECURSIVE DisposeLoop(_, _, _)
DisposeLoop(w, c, i) ==
  IF i > Len(w.nodes[c]) THEN w
  ELSE DisposeLoop(RemoveNode(w, c, i, "dispose"), c, i + 1)

\* the RegistryProvider of tab c has unmounted, its components with it, and
\* registry.dispose() removes every node
Dispose(c) ==
  /\ c \in env.tabs
  /\ ~disposed[c]
  /\ \A k \in DOMAIN consumers[c] : consumers[c][k] = 0
  /\ Len(nodes[c]) > 0
  /\ Commit(DisposeLoop(World, c, 1))
  /\ disposed' = [disposed EXCEPT ![c] = TRUE]
  /\ last' = [op |-> "Dispose", c |-> c]
  /\ UNCHANGED <<env, family, consumers, liveResult, updates, keyVars, mutVars>>

----------------------------------------------------------------------------
(* The key deriver on its own: two parameter objects are built from what   *)
(* two callers pass, then compared and hashed.                             *)

RawParams ==
  [kind : {"query"}, client : Clients, name : FunctionNames, args : RawArgs]
  \cup [kind : {"mutation"}, client : Clients, name : FunctionNames, args : {Undefined}]

\* Hash.random answers the same hash code whenever it is asked about the same
\* instance
OneHashPerInstance(a, b) ==
  \A x \in NestedObjects, y \in NestedObjects :
    /\ x.id = y.id
    /\ a.t = "obj" /\ Len(a.fields) = 1 /\ a.fields[1].v = x
    /\ b.t = "obj" /\ Len(b.fields) = 1 /\ b.fields[1].v = y
    => x.rh = y.rh

MakeParams(raw) ==
  IF raw.kind = "query" THEN makeQueryParams(raw.client, raw.name, raw.args)
  ELSE makeMutationParams(raw.client, raw.name)

Tabs == {1, 2}

\* the main variables while only the key deriver runs
\* no mutation is in use
MutIdle == mut = [stage |-> "idle"] /\ opt = [stage |-> "idle"]

MainIdle ==
  /\ env = [tabs |-> {}, browser |-> FALSE, components |-> <<0, 0>>,
            live |-> {}, callers |-> {}]
  /\ family = [c \in Tabs |-> <<>>]
  /\ nodes = [c \in Tabs |-> <<>>]
  /\ consumers = [c \in Tabs |-> [k \in 1..MaxConsumers |-> 0]]
  /\ liveResult = [c \in Tabs |-> <<>>]
  /\ updates = 0
  /\ storage = <<>>
  /\ inbox = [c \in Tabs |-> <<>>]
  /\ disposed = [c \in Tabs |-> FALSE]
  /\ last = [op |-> "Init"]

KeyInit ==
  /\ kin \in [a : RawParams, b : RawParams]
  /\ kout = [stage |-> "raw"]
  /\ OneHashPerInstance(kin.a.args, kin.b.args)
  /\ MainIdle
  /\ MutIdle

KeyMake ==
  /\ kout.stage = "raw"
  /\ kout' = [stage |-> "made", a |-> MakeParams(kin.a), b |-> MakeParams(kin.b)]
  /\ UNCHANGED <<kin, mainVars, mutVars>>

KeyCompare ==
  /\ kout.stage = "made"
  /\ kout' = [stage |-> "compared", a |-> kout.a, b |-> kout.b,
              eq |-> ParamsEquals(kout.a, kout.b),
              hashA |-> kout.a.hash,
              hashB |-> kout.b.hash]
  /\ UNCHANGED <<kin, mainVars, mutVars>>

KeyNext == KeyMake \/ KeyCompare

SpecKey == KeyInit /\ [][KeyNext]_vars

----------------------------------------------------------------------------
(* The bridge: tabs of one origin, their components, the live source and   *)
(* the transports                                                          *)

ParamsOf(e) == {UseQueryParams[r] : r \in e.callers}

StoredAtStart == {NoItem, JsonStringify(Num(2)), Garbage}

Init ==
  /\ kin = [a |-> Undefined, b |-> Undefined]
  /\ kout = [stage |-> "idle"]
  /\ env \in Scenarios
  /\ family = [c \in Tabs |-> <<>>]
  /\ nodes = [c \in Tabs |-> <<>>]
  /\ consumers = [c \in Tabs |-> [k \in 1..MaxConsumers |-> 0]]
  /\ liveResult = [c \in Tabs |->
                     [q \in {LiveKey(p) : p \in ParamsOf(env)} |-> Undefined]]
  /\ updates = 0
  /\ \E s \in StoredAtStart : storage = [k \in {KvKey(p) : p \in ParamsOf(env)} |-> s]
  /\ inbox = [c \in Tabs |-> <<>>]
  /\ disposed = [c \in Tabs |-> FALSE]
  /\ last = [op |-> "Init"]
  /\ MutIdle

Next ==
  \/ \E c \in Tabs, k \in 1..MaxConsumers, raw \in AllCallers : Acquire(c, k, raw)
  \/ \E c \in Tabs, k \in 1..MaxConsumers : Release(c, k)
  \/ \E c \in Tabs, q \in LiveKeys, r \in LiveResults : LiveUpdate(c, q, r)
  \/ \E c \in Tabs, j \in 1..MaxInbox : Deliver(c, j)
  \/ \E c \in Tabs, i \in 1..MaxAtoms : Consume(c, i)
  \/ \E c \in Tabs : Dispose(c)

Spec == Init /\ [][Next]_vars

\* two tabs of a browser, each with a component on the query and each with its
\* own connection to the live source, starting with an empty cache
BothLive ==
  [tabs |-> {1, 2}, browser |-> TRUE, components |-> <<1, 1>>,
   live |-> {1, 2}, callers |-> {Caller(Undefined)}, quota |-> FALSE]

\* the state before any use in scenario e, with an empty cache
InitOf(e) ==
  /\ kin = [a |-> Undefined, b |-> Undefined]
  /\ kout = [stage |-> "idle"]
  /\ env = e
  /\ family = [c \in Tabs |-> <<>>]
  /\ nodes = [c \in Tabs |-> <<>>]
  /\ consumers = [c \in Tabs |-> [k \in 1..MaxConsumers |-> 0]]
  /\ liveResult = [c \in Tabs |->
                     [q \in {LiveKey(p) : p \in ParamsOf(env)} |-> Undefined]]
  /\ updates = 0
  /\ storage = [k \in {KvKey(p) : p \in ParamsOf(env)} |-> NoItem]
  /\ inbox = [c \in Tabs |-> <<>>]
  /\ disposed = [c \in Tabs |-> FALSE]
  /\ last = [op |-> "Init"]
  /\ MutIdle

InitBothLive == InitOf(BothLive)

SpecBothLive == InitBothLive /\ [][Next]_vars

\* two tabs of a browser whose live source hands out unsubscribe functions
\* that throw
UnsubscribeThrowing ==
  [tabs |-> {1, 2}, browser |-> TRUE, components |-> <<1, 1>>,
   live |-> {2}, callers |-> {Caller(Undefined)}, quota |-> FALSE,
   unsubThrows |-> TRUE]

\* two tabs of a browser whose components ask for queries of two different
\* arguments (a component that unmounts may mount again on the other query);
\* only tab 2 has a live source, which makes one notification
TwoKeys ==
  [tabs |-> {1, 2}, browser |-> TRUE, components |-> <<1, 1>>,
   live |-> {2}, callers |-> {Caller(ArgsAB), Caller(ArgsOther)}, quota |-> FALSE,
   notifications |-> 1]

InitTwoKeys == InitOf(TwoKeys)

SpecTwoKeys == InitTwoKeys /\ [][Next]_vars

InitUnsubscribeThrowing == InitOf(UnsubscribeThrowing)

SpecUnsubscribeThrowing == InitUnsubscribeThrowing /\ [][Next]_vars

\* two tabs of a browser that starts with an empty cache and whose event loops
\* keep running: a queued event is dispatched in the end, and the fiber of an
\* atom takes what its stream holds
InitTwoTabs ==
  /\ Init
  /\ env.tabs = Tabs
  /\ \A k \in DOMAIN storage : storage[k] = NoItem

DeliverSome == \E c \in Tabs, j \in 1..MaxInbox : Deliver(c, j)

ConsumeSome == \E c \in Tabs, i \in 1..MaxAtoms : Consume(c, i)

SpecFair ==
  InitTwoTabs /\ [][Next]_vars /\ WF_vars(DeliverSome) /\ WF_vars(ConsumeSome)

----------------------------------------------------------------------------
(* The optimistic mutation of the design notes (createOptimisticMutation):  *)
(* one call, on one atom whose current value the patch changes.             *)

MaxValue == 2

OptValues == 0..MaxValue

\* optimisticUpdate(args): a function of the current value
Patches == {[kind |-> "inc"]} \cup {[kind |-> "set", to |-> x] : x \in OptValues}

ApplyPatch(p, v) == IF p.kind = "inc" THEN (v + 1) % (MaxValue + 1) ELSE p.to

\* what the promise of client.mutation ends with
Outcomes ==
  {[kind |-> "resolve", with |-> r] : r \in OptValues}
    \cup {[kind |-> "reject", with |-> "cause"]}

ExitSuccess(r) == [tag |-> "Success", value |-> r]

ExitFailure(cause) == [tag |-> "Failure", error |-> "ConvexError", cause |-> cause]

\* Exit.die: an exception nobody caught
ExitDie(cause) == [tag |-> "Die", defect |-> cause]

KeysIdle == kin = [a |-> Undefined, b |-> Undefined] /\ kout = [stage |-> "idle"]

OptInit ==
  /\ KeysIdle
  /\ MainIdle
  /\ mut = [stage |-> "idle"]
  /\ opt \in [stage : {"start"}, value : OptValues, patch : Patches, pushed : {FALSE}]

\* const rollback = queryAtoms.applyOptimistic(optimisticUpdate(args)): the
\* atom's value is patched and rollback keeps the value it had
OptApply ==
  /\ opt.stage = "start"
  /\ opt' = [stage |-> "pending", value |-> ApplyPatch(opt.patch, opt.value),
              before |-> opt.value, patch |-> opt.patch, pushed |-> FALSE]
  /\ UNCHANGED <<keyVars, mainVars, mut>>

\* the promise settles.  Effect.tryPromise turns a rejection into a failed
\* effect; a failed effect ends the generator at its yield*, so that the catch
\* block around it (the rollback and Effect.fail) is not entered: catch takes
\* what synchronous code throws, and tryPromise lets nothing be thrown.
OptSettle(o) ==
  /\ opt.stage = "pending"
  /\ opt' = [opt EXCEPT !.stage = "done"] @@
             [exit |-> IF o.kind = "resolve" THEN ExitSuccess(o.with)
                       ELSE ExitFailure(o.with)]
  /\ UNCHANGED <<keyVars, mainVars, mut>>

\* the live source pushes the value the server holds and the atom takes it
OptLivePush(v) ==
  /\ opt.stage \in {"pending", "done"}
  /\ ~opt.pushed
  /\ opt' = [opt EXCEPT !.value = v, !.pushed = TRUE]
  /\ UNCHANGED <<keyVars, mainVars, mut>>

OptNext ==
  \/ OptApply
  \/ \E o \in Outcomes : OptSettle(o)
  \/ \E v \in OptValues : OptLivePush(v)

SpecOptimistic == OptInit /\ [][OptNext]_vars

----------------------------------------------------------------------------
(* useMutation and convexMutationFamily: components ask for mutation atoms  *)
(* and call them.                                                           *)

MutationArgs == {Num(1), Num(2)}

\* what client.mutation(...) does: its promise resolves or rejects, or the
\* call itself throws
MutationOutcomes ==
  {[kind |-> "resolve", with |-> r] : r \in {Null, Num(1)}}
    \cup {[kind |-> k, with |-> "cause"] : k \in {"reject", "throw"}}

NoCall == [client |-> "", mutation |-> <<>>, args |-> Undefined]

\* MutableHashMap.get of the mutation family
MutationFamilyLookup(fam, params) ==
  LET hits == {i \in 1..Len(fam) :
                 /\ fam[i].hash = params.hash
                 /\ MutationParamsEquals(params, fam[i])}
  IN  IF hits = {} THEN 0 ELSE CHOOSE i \in hits : \A j \in hits : i <= j

\* a promise that rejects, or a try that throws, with no catch around it
TryPromiseNoCatch(o) ==
  IF o.kind = "resolve" THEN ExitSuccess(o.with) ELSE ExitDie(o.with)

\* Effect.tryPromise({ try, catch }): a rejection and an exception thrown by
\* try both go through catch and fail the effect with the ConvexError
TryPromise(o) ==
  IF o.kind = "resolve" THEN ExitSuccess(o.with) ELSE ExitFailure(o.with)

MutInit ==
  /\ KeysIdle
  /\ MainIdle
  /\ opt = [stage |-> "idle"]
  /\ mut = [stage |-> "ready", family |-> <<>>, atom |-> 0, caller |-> "",
             call |-> NoCall, outcome |-> Null, exit |-> Null]

\* useMutation(mutation) in a component under the provider of client:
\* makeMutationParams, convexMutationFamily(params), useAtom(mutationAtom)
UseMutation(client, mutation) ==
  /\ mut.stage \in {"ready", "settled"}
  /\ LET params == makeMutationParams(client, mutation)
         found == MutationFamilyLookup(mut.family, params)
     IN  mut' = [mut EXCEPT
                   !.stage = "ready",
                   !.family = IF found # 0 THEN @ ELSE Append(@, params),
                   !.atom = IF found # 0 THEN found ELSE Len(mut.family) + 1,
                   !.caller = client,
                   !.call = NoCall, !.outcome = Null, !.exit = Null]
  /\ UNCHANGED <<keyVars, mainVars, opt>>

\* the component calls the function of its mutation atom: the effect of the
\* atom runs params.client.mutation(params.mutation, args) with the params the
\* atom was made of
MutationCall(args) ==
  /\ mut.stage = "ready"
  /\ mut.atom # 0
  /\ mut' = [mut EXCEPT
               !.stage = "pending",
               !.call = [client |-> mut.family[mut.atom].client,
                         mutation |-> mut.family[mut.atom].mutation,
                         args |-> args]]
  /\ UNCHANGED <<keyVars, mainVars, opt>>

\* the call ends and the promise the component holds resolves with the Exit
\* (mode "promiseExit")
MutationSettle(o) ==
  /\ mut.stage = "pending"
  /\ mut' = [mut EXCEPT !.stage = "settled", !.outcome = o, !.exit = TryPromise(o)]
  /\ UNCHANGED <<keyVars, mainVars, opt>>

MutNext ==
  \/ \E client \in Clients, mutation \in FunctionNames : UseMutation(client, mutation)
  \/ \E args \in MutationArgs : MutationCall(args)
  \/ \E o \in MutationOutcomes : MutationSettle(o)

SpecMutation == MutInit /\ [][MutNext]_vars

\* the params of two callers, and the mutation family used from components
\* under different clients
ClientsInit == KeyInit \/ MutInit

ClientsNext ==
  \/ KeyMake
  \/ KeyCompare
  \/ \E client \in Clients, mutation \in FunctionNames : UseMutation(client, mutation)
  \/ \E args \in MutationArgs : MutationCall(args)
  \/ \E o \in MutationOutcomes : MutationSettle(o)

SpecClients == ClientsInit /\ [][ClientsNext]_vars

----------------------------------------------------------------------------
(* Properties *)

\* the live callbacks node i of tab c has registered and not yet unsubscribed
LiveCallbacks(c, i) == nodes[c][i].onUpdateCalls - nodes[c][i].unsubCalls

\* a result the live source can be read for: neither undefined nor a throw
Defined(r) == r # Undefined /\ r # Throws

\* C1: in every reachable state of a tab no two family entries have equal
\* signatures and an entry holds at most one registered live callback, so there
\* is at most one live subscription per signature; and an acquire of a signature
\* that is already live makes no new atom and does not run the factory again.
C1_OneLiveSubscriptionPerSignature ==
  /\ \A c \in Tabs : \A i, j \in 1..Len(family[c]) :
       ParamsEquals(family[c][i], family[c][j]) => i = j
  /\ \A c \in Tabs : \A i \in 1..Len(nodes[c]) : LiveCallbacks(c, i) <= 1
  /\ last.op = "Acquire" /\ last.wasLive => ~last.made /\ ~last.activated

\* two components of a tab are mounted on one atom whose factory ran once
C1_Witness ==
  /\ last.op = "Acquire" /\ last.wasLive
  /\ nodes[last.c][last.i].refcount = MaxConsumers
  /\ nodes[last.c][last.i].watchCalls = 1
  /\ nodes[last.c][last.i].onUpdateCalls = 1

\* C2: two QueryParams compare equal exactly if their function names match and
\* their argument values are deeply structurally equal, whatever the instances,
\* the nesting and the order of the fields.
C2_DeepEqualArgsGiveEqualSignatures ==
  kout.stage = "compared" /\ kin.a.kind = "query" /\ kin.b.kind = "query"
    => (kout.eq <=> /\ kin.a.name = kin.b.name
                    /\ SameContent(kin.a.args, kin.b.args))

\* C3: whenever the Equal method of QueryParams or of MutationParams answers
\* true for a pair, the two hash codes are the same.
C3_EqualImpliesSameHash ==
  kout.stage = "compared" /\ kout.eq => kout.hashA = kout.hashB

\* two params made from different inputs (another client, another order of the
\* fields) compare equal
C3_Witness ==
  /\ kout.stage = "compared" /\ kout.eq
  /\ kin.a.client # kin.b.client
  /\ kin.a.args # kin.b.args

\* C4: after a notification of the live source whose re-read value is defined,
\* that value has been emitted into the stream of every atom of the tab whose
\* callback is registered for the query.
C4_LiveValueEmittedLocally ==
  last.op = "LiveUpdate" /\ Defined(last.r) =>
    \A i \in 1..Len(nodes[last.c]) :
      LET n == nodes[last.c][i]
      IN  n.regLive /\ n.liveKey = last.q /\ n.status = "active" /\ ~n.finished
            => n.queue # <<>> /\ n.lastEmit = last.r

\* C5 as stated: once the last consumer of a signature has released it, the
\* live source's unsubscribe has been called exactly once.
C5_UnsubscribedOnLastRelease ==
  last.op = "Release" /\ nodes[last.c][last.i].refcount = 0
    => nodes[last.c][last.i].unsubCalls = 1

\* C5, amended: every query atom is kept alive, so the release of all consumers
\* calls unsubscribe zero times: as long as the registry is not disposed and the
\* stream has not failed, unsubscribe has not been called; it is never called
\* twice, and once the registry is disposed it has been called exactly once for
\* every atom that registered a live callback.
C5_UnsubscribedOnlyWithRegistry ==
  \A c \in Tabs : \A i \in 1..Len(nodes[c]) :
    LET n == nodes[c][i]
    IN  /\ n.unsubCalls <= 1
        /\ ~disposed[c] /\ n.status # "closed" => n.unsubCalls = 0
        /\ disposed[c] /\ n.onUpdateCalls = 1 => n.unsubCalls = 1

\* all consumers of a live atom have released it and it is still subscribed
C5_Witness ==
  /\ last.op = "Release"
  /\ nodes[last.c][last.i].refcount = 0
  /\ nodes[last.c][last.i].regLive
  /\ nodes[last.c][last.i].unsubCalls = 0

\* C6: while an atom that subscribed to the live source has a consumer, its
\* unsubscribe has not been called and its live callback is still registered.
C6_NoTeardownWhileConsumed ==
  \A c \in Tabs : \A i \in 1..Len(nodes[c]) :
    LET n == nodes[c][i]
    IN  n.refcount > 0 /\ n.onUpdateCalls > 0 => n.unsubCalls = 0 /\ n.regLive

C8_EqualValuesCollapse ==
  last.op = "Consume" /\ last.same => ~last.changed

\* C9: an atom activated from the cache emitted the cached value first; and
\* once the live source has since produced a defined value and nothing is left
\* in flight (stream queue and event queue empty), the atom's value is that
\* live value.
C9_LiveSupersedesCache ==
  \A c \in Tabs : \A i \in 1..Len(nodes[c]) :
    LET n == nodes[c][i]
        live == liveResult[c][n.liveKey]
    IN  n.fromCache /\ n.status = "active" /\ ~n.finished =>
          /\ n.first # Null
          /\ n.regLive /\ Defined(live) /\ n.queue = <<>> /\ inbox[c] = <<>>
               => n.value.tag = "Success" /\ SameContent(n.value.value, live)

\* the queue of an atom changes by one take, by one offer that keeps the newest
\* item and, on a full queue, discards the oldest, or by being emptied
QueueStep(q, r) ==
  \/ r = q
  \/ r = <<>>
  \/ q # <<>> /\ r = Tail(q)
  \/ /\ r # <<>>
     /\ r = IF Len(q) < bufferSize THEN Append(q, r[Len(r)])
            ELSE Append(Tail(q), r[Len(r)])

\* C10: a stream's queue never holds more than bufferSize items; an emission is
\* never refused (the latest value emitted is the newest item of a queue that
\* is not empty); and an offer to a full queue discards the oldest item.
C10_SlidingBuffer ==
  /\ [](\A c \in Tabs : \A i \in 1..Len(nodes[c]) :
          LET n == nodes[c][i]
          IN  /\ Len(n.queue) <= bufferSize
              /\ n.queue # <<>> /\ ~n.finished => n.queue[Len(n.queue)] = n.lastEmit)
  /\ [][\A c \in Tabs : \A i \in 1..Len(nodes[c]) :
          QueueStep(nodes[c][i].queue, nodes'[c][i].queue)]_vars

\* three values were emitted before the atom took any: the queue is full and
\* the first value emitted is no longer its oldest item
C10_Witness ==
  \E c \in Tabs : \E i \in 1..Len(nodes[c]) :
    /\ Len(nodes[c][i].queue) = bufferSize
    /\ nodes[c][i].value = ResultInitial
    /\ nodes[c][i].first # Null
    /\ nodes[c][i].first # nodes[c][i].queue[1]

\* C11: once nothing more is emitted and the atom keeps taking from its
\* stream, the value the consumers of an open stream hold is the value emitted
\* last, whatever the sliding queue dropped before it.
C11_LastEmittedIsObserved ==
  <>[](\A c \in Tabs : \A i \in 1..Len(nodes[c]) :
         LET n == nodes[c][i]
         IN  n.status = "active" /\ ~n.finished /\ n.lastEmit # Null
               => n.queue = <<>> /\ n.value = ResultSuccess(n.lastEmit))

\* the queue slid (an offer found it full and dropped the oldest item) and the
\* atom has since taken all that was left and holds the value emitted last
C11_Witness ==
  \E c \in Tabs : \E i \in 1..Len(nodes[c]) :
    /\ nodes[c][i].status = "active"
    /\ nodes[c][i].queue = <<>>
    /\ nodes[c][i].first # Null
    /\ nodes[c][i].dropped
    /\ nodes[c][i].value = ResultSuccess(nodes[c][i].lastEmit)

C13_ReadErrorBecomesFailure ==
  /\ last.op = "LiveUpdate" /\ last.r = Throws =>
       \A i \in 1..Len(nodes[last.c]) :
         LET n == nodes[last.c][i]
         IN  n.status = "active" /\ n.regLive /\ n.liveKey = last.q =>
               /\ n.finished /\ n.failWhy # ""
               /\ n.queue # <<>> /\ n.queue[Len(n.queue)] = ExitFail
  /\ last.op = "Acquire" /\ last.activated =>
       LET n == nodes[last.c][last.i]
       IN  liveResult[last.c][n.liveKey] = Throws =>
             /\ n.finished /\ n.failWhy = "read"
             /\ n.queue = <<ExitFail>>
  /\ \A c \in Tabs : \A i \in 1..Len(nodes[c]) :
       nodes[c][i].failWhy = "read" /\ nodes[c][i].status = "closed" =>
         nodes[c][i].value.tag = "Failure"

\* an update notification found the read throwing, and the consumers of the
\* atom hold the failure
C13_Witness ==
  /\ \E i \in 1..Len(nodes[1]) :
       /\ nodes[1][i].failWhy = "read"
       /\ nodes[1][i].status = "closed"
       /\ nodes[1][i].first # Null
       /\ nodes[1][i].refcount > 0
       /\ nodes[1][i].value.tag = "Failure"

\* C14: after a read of the live source threw and the failure was emitted, the
\* atom's live callback is still registered with the live source and its
\* unsubscribe function has not been called.
C14_SubscriptionSurvivesReadError ==
  \A c \in Tabs : \A i \in 1..Len(nodes[c]) :
    nodes[c][i].failWhy = "read" /\ ~disposed[c] =>
      nodes[c][i].regLive /\ nodes[c][i].unsubCalls = 0

\* C15: a stored or relayed value that JSON.parse rejects is dropped as if it
\* had never arrived: no stream is ended for it and no consumer is handed a
\* failure for it.
C15_UnparseableValueIgnored ==
  \A c \in Tabs : \A i \in 1..Len(nodes[c]) :
    nodes[c][i].failWhy = "parse" =>
      /\ nodes[c][i].status = "active" /\ ~nodes[c][i].finished
      /\ nodes[c][i].value.tag # "Failure"

\* C16: a failure of the cache or of the broadcast transport never ends a
\* stream: no atom's stream is done, and no consumer holds a failure, because
\* kv.value.set failed.
C16_TransportFailureNotFatal ==
  \A c \in Tabs : \A i \in 1..Len(nodes[c]) : nodes[c][i].failWhy # "transport"

\* C17: when the setup of a stream fails (the acquire effect ran, watchQuery
\* was called, and watch.onUpdate was never reached), nothing it registered
\* before the failure is left registered.
C17_FailedSetupLeavesNothing ==
  \A c \in Tabs : \A i \in 1..Len(nodes[c]) :
    nodes[c][i].watchCalls > 0 /\ nodes[c][i].onUpdateCalls = 0 =>
      /\ ~nodes[c][i].regStorage
      /\ ~nodes[c][i].regBroadcast
      /\ ~nodes[c][i].regLive

\* C18: the cleanup of a stream runs at most once: the live callback is
\* unsubscribed once and each of the two listeners is removed once, and after
\* it none of the three is registered.  What would run it again (the registry
\* disposed after the stream had failed) finds the scope closed and changes
\* no registration.
C18_TeardownOnceAndIdempotent ==
  /\ [](\A c \in Tabs : \A i \in 1..Len(nodes[c]) :
          LET n == nodes[c][i]
          IN  /\ n.unsubCalls <= 1
              /\ n.unsubStorageCalls <= 1
              /\ n.unsubBroadcastCalls <= 1
              /\ n.unsubCalls = 1 =>
                   /\ ~n.regLive /\ ~n.regStorage /\ ~n.regBroadcast
                   /\ env.browser => /\ n.unsubStorageCalls = 1
                                      /\ n.unsubBroadcastCalls = 1)
  /\ [][\A c \in Tabs : \A i \in 1..Len(nodes[c]) :
          nodes[c][i].unsubCalls = 1 =>
            /\ nodes'[c][i].unsubCalls = 1
            /\ nodes'[c][i].unsubStorageCalls = nodes[c][i].unsubStorageCalls
            /\ nodes'[c][i].unsubBroadcastCalls = nodes[c][i].unsubBroadcastCalls
            /\ ~nodes'[c][i].regLive
            /\ ~nodes'[c][i].regStorage
            /\ ~nodes'[c][i].regBroadcast]_vars

\* in a browser the stream of an atom failed, its cleanup removed the live
\* callback and the two listeners, and the registry was disposed afterwards
C18_Witness ==
  \E c \in Tabs : \E i \in 1..Len(nodes[c]) :
    /\ env.browser
    /\ last.op = "Dispose" /\ last.c = c
    /\ nodes[c][i].relWhy = "failure"
    /\ nodes[c][i].unsubCalls = 1
    /\ nodes[c][i].unsubStorageCalls = 1
    /\ nodes[c][i].unsubBroadcastCalls = 1

\* the stream of node i of tab c was started and has ended: it failed, its
\* setup failed, or its node was removed
Ended(c, i) ==
  nodes[c][i].watchCalls > 0 /\ nodes[c][i].status \in {"closed", "none"}

\* C19: once the stream of an atom has ended (its teardown has begun), nothing
\* is emitted into it and its consumers are handed nothing more: no step
\* changes its queue, the value last emitted, or the Result the atom holds.
C19_NothingEmittedAfterTeardown ==
  [][\A c \in Tabs : \A i \in 1..Len(nodes[c]) :
       Ended(c, i) =>
         /\ nodes'[c][i].queue = nodes[c][i].queue
         /\ nodes'[c][i].lastEmit = nodes[c][i].lastEmit
         /\ nodes'[c][i].finished = nodes[c][i].finished
         /\ nodes'[c][i].value = nodes[c][i].value]_vars

\* a tab dispatches an event for the key of an atom whose cleanup has run
C19_Witness ==
  /\ last.op = "Deliver"
  /\ \E i \in 1..Len(nodes[last.c]) :
       /\ nodes[last.c][i].unsubCalls = 1
       /\ nodes[last.c][i].kvKey = last.e.key
       /\ nodes[last.c][i].queue = <<>>

\* the strings a tab writes to the cache and posts for a result of its live
\* source
WrittenStrings == {JsonStringify(r) : r \in {x \in LiveResults : Defined(x)}}

\* the stream of node i of tab 1, whose live source never has a result, is open
OpenInB(i) ==
  /\ i \in 1..Len(nodes[1])
  /\ nodes[1][i].status = "active"
  /\ ~nodes[1][i].finished

C21_LiveValueNotReplacedByRelay ==
  \A c \in Tabs : \A i \in 1..Len(nodes[c]) :
    LET n == nodes[c][i]
    IN  n.fromLive /\ n.value.tag = "Success" => n.value = ResultSuccess(n.first)

\* C22: when the remote mutation has failed and the live source has pushed
\* nothing since the patch, the value is again what it was before the patch.
C22_FailedMutationRollsBack ==
  opt.stage = "done" /\ opt.exit.tag = "Failure" /\ ~opt.pushed =>
    opt.value = opt.before

\* C23: the caller of a mutation gets its end as a value: a failure holding a
\* ConvexError with the cause when the client's mutation rejects (or throws),
\* the success holding R when it resolves with R, and never a defect.
C23_MutationEndsAsExit ==
  mut.stage = "settled" =>
    /\ mut.outcome.kind = "resolve" => mut.exit = ExitSuccess(mut.outcome.with)
    /\ mut.outcome.kind # "resolve" =>
         /\ mut.exit.tag = "Failure"
         /\ mut.exit.error = "ConvexError"
         /\ mut.exit.cause = mut.outcome.with
    /\ mut.exit.tag # "Die"

\* a mutation was called and the client rejected it
C23_Witness ==
  /\ mut.stage = "settled"
  /\ mut.outcome.kind = "reject"
  /\ mut.exit = ExitFailure("cause")

\* C24: when a stream is activated while the live source has a result, that
\* result is the first value emitted into the stream and, in a browser, a
\* message with its serialization is posted under the key and (where
\* localStorage takes writes) the cache holds the serialization under the key.
C24_InitialLiveValuePublished ==
  last.op = "Acquire" /\ last.activated =>
    LET n == nodes[last.c][last.i]
        initial == liveResult[last.c][n.liveKey]
    IN  Defined(initial) =>
          /\ n.first = initial
          /\ ~n.fromCache
          /\ n.status = "active" /\ n.queue = <<initial>>
          /\ env.browser =>
               /\ n.posts = 1
               /\ n.lastPost = [key |-> n.kvKey, value |-> JsonStringify(initial)]
               /\ ~SetFails(last.c) => storage[n.kvKey] = JsonStringify(initial)

\* C25: an atom whose activation found neither a live result nor a cached
\* value holds Result.initial, and nothing is in its stream, for as long as no
\* value has been emitted.
C25_PendingUntilFirstValue ==
  /\ last.op = "Acquire" /\ last.activated =>
       LET n == nodes[last.c][last.i]
       IN  /\ liveResult[last.c][n.liveKey] = Undefined
           /\ env.browser => storage[n.kvKey] = NoItem
           => n.value = ResultInitial /\ n.queue = <<>> /\ n.first = Null
  /\ \A c \in Tabs : \A i \in 1..Len(nodes[c]) :
       LET n == nodes[c][i]
       IN  n.status = "active" /\ n.first = Null /\ ~n.finished =>
             n.value = ResultInitial /\ n.queue = <<>>

\* a component is mounted on an atom that found nothing to emit, the live
\* source has notified with no result since, and the atom still holds
\* Result.initial
C25_Witness ==
  /\ last.op = "LiveUpdate" /\ last.r = Undefined
  /\ \E i \in 1..Len(nodes[last.c]) :
       LET n == nodes[last.c][i]
       IN  /\ n.status = "active" /\ n.regLive /\ n.refcount > 0
           /\ n.liveKey = last.q
           /\ n.first = Null
           /\ n.value = ResultInitial

\* C26: two query signatures that compare equal have the same key for the
\* cache and the broadcast.
C26_EqualSignaturesSameKvKey ==
  /\ kout.stage = "compared"
  /\ isQueryParams(kout.a) /\ isQueryParams(kout.b)
  /\ kout.eq
  => KvKey(kout.a) = KvKey(kout.b)

\* C27: a notification of the live source with a defined result, handled by
\* the callback of an atom in a browser, posts one message (key, serialization
\* of the result), touches no cache entry but the one of the atom's key and
\* (where localStorage takes writes) leaves the serialization in that entry.
C27_LiveUpdateWritesAndPosts ==
  [][last'.op = "LiveUpdate" /\ Defined(last'.r) /\ env.browser =>
       \A i \in 1..Len(nodes[last'.c]) :
         LET n == nodes[last'.c][i]
             m == nodes'[last'.c][i]
             value == JsonStringify(last'.r)
         IN  n.regLive /\ n.liveKey = last'.q =>
               /\ m.posts = n.posts + 1
               /\ m.lastPost = [key |-> n.kvKey, value |-> value]
               /\ \A k \in DOMAIN storage : k # n.kvKey => storage'[k] = storage[k]
               /\ ~SetFails(last'.c) => storage'[n.kvKey] = value]_vars

\* C28: the release of the last consumer of an atom does not run its cleanup,
\* and a component that mounts on the atom afterwards gets the node as it is:
\* the factory of the stream is not run again, so that watchQuery and
\* watch.onUpdate are called at most once for an atom.
C28_KeptAliveAcrossReacquire ==
  /\ \A c \in Tabs : \A i \in 1..Len(nodes[c]) :
       /\ nodes[c][i].watchCalls <= 1
       /\ nodes[c][i].onUpdateCalls <= 1
       /\ nodes[c][i].relWhy # "release"
  /\ last.op = "Release" =>
       LET n == nodes[last.c][last.i]
       IN  n.refcount = 0 /\ n.status = "active" => n.regLive /\ n.unsubCalls = 0
  /\ last.op = "Acquire" /\ ~last.made =>
       /\ ~last.activated
       /\ nodes[last.c][last.i].watchCalls = 1

\* a component mounts on a live atom that all consumers had released: the
\* subscription made at the first mount is still the only one
C28_Witness ==
  /\ last.op = "Acquire" /\ ~last.made
  /\ LET n == nodes[last.c][last.i]
     IN  /\ n.refcount = 1
         /\ n.status = "active" /\ n.regLive
         /\ n.watchCalls = 1 /\ n.onUpdateCalls = 1 /\ n.unsubCalls = 0

\* C29: once the cleanup of a stream has run, the two listeners are removed,
\* also when the unsubscribe of the live source threw in it.
C29_TeardownErrorSwallowed ==
  \A c \in Tabs : \A i \in 1..Len(nodes[c]) :
    nodes[c][i].unsubCalls > 0 =>
      ~nodes[c][i].regStorage /\ ~nodes[c][i].regBroadcast

C31_ReceivedValueOnlyEmitted ==
  [][last'.op = "Deliver" =>
       /\ storage' = storage
       /\ \A c \in Tabs : \A i \in 1..Len(nodes[c]) :
            /\ nodes'[c][i].posts = nodes[c][i].posts
            /\ nodes'[c][i].lastPost = nodes[c][i].lastPost
       /\ \A c \in Tabs :
            IF c = last'.c
            THEN \E j \in 1..Len(inbox[c]) :
                   inbox[c][j] = last'.e /\ inbox'[c] = RemoveAt(inbox[c], j)
            ELSE inbox'[c] = inbox[c]]_vars

\* a listener took a value that a sibling tab sent and emitted it
C31_Witness ==
  /\ last.op = "Deliver"
  /\ \E i \in 1..Len(nodes[last.c]) :
       LET n == nodes[last.c][i]
       IN  /\ Receives(n, i, last.e)
           /\ n.lastEmit = JsonParse(EventValue(last.e))
           /\ ~n.fromLive

\* C32: the dispatch of a storage event or of a broadcast message changes an
\* atom of the tab only if the key of the event is the atom's key and, for a
\* storage event, the new value is an item that differs from the old one; the
\* values queued on the stream of an atom of another key are as before.
C32_OnlyOwnKeyDelivered ==
  [][last'.op = "Deliver" =>
       \A i \in 1..Len(nodes[last'.c]) :
         LET n == nodes[last'.c][i]
             e == last'.e
         IN  nodes'[last'.c][i] # n =>
               /\ e.key = n.kvKey
               /\ e.kind = "storage" => e.new # NoItem /\ e.new # e.old]_vars

\* a tab with atoms of two keys dispatched an event of one of them: the atom of
\* that key emitted its value
C32_Witness ==
  /\ last.op = "Deliver"
  /\ \E i, j \in 1..Len(nodes[last.c]) :
       LET n == nodes[last.c][i]
           m == nodes[last.c][j]
       IN  /\ n.kvKey = last.e.key
           /\ n.lastEmit = JsonParse(EventValue(last.e))
           /\ m.kvKey # last.e.key
           /\ m.status = "active"
           /\ IF last.e.kind = "storage" THEN m.regStorage ELSE j \in last.e.to

\* C33: params made of the same function name and the same arguments (for a
\* mutation: of the same name) are equal, have the same hash and find the
\* family entry made of the other, whatever their clients; the mutation family
\* holds one entry a name, an entry keeps the params it was made of, and a
\* call runs on the client of those params.
C33_ClientNotInSignature ==
  /\ [](kout.stage = "compared" /\ kin.a.kind = kin.b.kind
          /\ kin.a.name = kin.b.name /\ kin.a.args = kin.b.args =>
            /\ kout.eq
            /\ kout.hashA = kout.hashB
            /\ IF kin.a.kind = "query"
               THEN FamilyLookup(<<kout.a>>, kout.b) = 1
               ELSE MutationFamilyLookup(<<kout.a>>, kout.b) = 1)
  /\ [](mut.stage # "idle" =>
          /\ \A i, j \in 1..Len(mut.family) :
               mut.family[i].mutation = mut.family[j].mutation => i = j
          /\ mut.stage \in {"pending", "settled"} =>
               mut.call.client = mut.family[mut.atom].client)
  /\ [][mut.stage # "idle" =>
          \A i \in 1..Len(mut.family) : mut'.family[i] = mut.family[i]]_vars

\* a component under one client calls a mutation whose atom was made under
\* the other client: the call goes to the client of the first
C33_Witness ==
  /\ mut.stage = "pending"
  /\ mut.call.client # mut.caller
  /\ mut.family[mut.atom].client = mut.call.client

\* C34 as stated: a notification of the live source for which the result is
\* undefined changes no atom, no cache entry and no event queue, and an
\* activation whose initial read is undefined emits nothing, writes no cache
\* entry and posts nothing.
C34_UndefinedChangesNothing ==
  [][/\ last'.op = "LiveUpdate" /\ last'.r = Undefined =>
          nodes' = nodes /\ storage' = storage /\ inbox' = inbox
     /\ last'.op = "Acquire" /\ last'.activated
          /\ liveResult[last'.c][nodes'[last'.c][last'.i].liveKey] = Undefined =>
          LET m == nodes'[last'.c][last'.i]
          IN  /\ m.lastEmit = Null /\ m.queue = <<>>
              /\ m.posts = 0
              /\ storage' = storage /\ inbox' = inbox]_vars

\* C34: a notification of the live source for which the result is undefined
\* changes no atom, no cache entry and no event queue.  An activation whose
\* initial read is undefined writes no cache entry and posts nothing; it emits
\* nothing but, in a browser, the value parsed from the cache entry of the
\* atom's key.
C34_UndefinedWritesAndPostsNothing ==
  [][/\ last'.op = "LiveUpdate" /\ last'.r = Undefined =>
          nodes' = nodes /\ storage' = storage /\ inbox' = inbox
     /\ last'.op = "Acquire" /\ last'.activated
          /\ liveResult[last'.c][nodes'[last'.c][last'.i].liveKey] = Undefined =>
          LET m == nodes'[last'.c][last'.i]
              cached == storage[m.kvKey]
          IN  /\ \/ m.lastEmit = Null /\ m.queue = <<>>
                 \/ /\ env.browser /\ cached # NoItem /\ JsonParses(cached)
                    /\ m.lastEmit = JsonParse(cached)
                    /\ m.queue = <<JsonParse(cached)>>
              /\ m.posts = 0
              /\ storage' = storage /\ inbox' = inbox]_vars

\* an atom activated while the live source had no result emitted the cached
\* value, and a later notification found the result undefined again
C34_Witness ==
  /\ last.op = "LiveUpdate" /\ last.r = Undefined
  /\ \E i \in 1..Len(nodes[last.c]) :
       LET n == nodes[last.c][i]
       IN  /\ n.regLive /\ n.liveKey = last.q
           /\ n.fromCache /\ n.lastEmit # Null
           /\ n.posts = 0

\* C35: where no key-value store, broadcast or storage-subscription service is
\* provided (outside a browser) an atom has no storage or broadcast listener
\* and no channel, has posted nothing and has taken nothing from the cache, no
\* event is queued and no step writes a cache entry; and a notification of
\* the live source with a defined result puts that result on the stream of the
\* atom that watches the query.
C35_NoServicesLiveValuesOnly ==
  /\ [](~env.browser =>
          /\ \A c \in Tabs : inbox[c] = <<>>
          /\ \A c \in Tabs : \A i \in 1..Len(nodes[c]) :
               LET n == nodes[c][i]
               IN  /\ ~n.regStorage /\ ~n.regBroadcast /\ ~n.channel
                   /\ n.posts = 0 /\ ~n.fromCache
                   /\ n.unsubStorageCalls = 0 /\ n.unsubBroadcastCalls = 0)
  /\ [][~env.browser =>
          /\ storage' = storage
          /\ last'.op = "LiveUpdate" /\ Defined(last'.r) =>
               \A i \in 1..Len(nodes[last'.c]) :
                 LET n == nodes[last'.c][i]
                     m == nodes'[last'.c][i]
                 IN  n.regLive /\ n.liveKey = last'.q /\ n.status = "active"
                       /\ ~n.finished =>
                       /\ m.lastEmit = last'.r
                       /\ m.queue # <<>>
                       /\ m.queue[Len(m.queue)] = last'.r]_vars

====
